---------------------------- MODULE Spec2Model ----------------------------
(***************************************************************************)
(* A model of server.py: the GET-only static file server MyWebServer.      *)
(*                                                                         *)
(* Text and bytes.  A Python str is a sequence of characters and a bytes   *)
(* object a sequence of bytes.  An ASCII character and the byte that       *)
(* encodes it are both written as the one-letter string ("a", "/", "\r");  *)
(* the code point U+00E9 is the character "U+00E9", and a byte above 0x7F  *)
(* is written "xC3", "xA9", "xFF".  Utf8Decode and Utf8Encode convert      *)
(* between the two.                                                        *)
(*                                                                         *)
(* The file system is a function from absolute paths (sequences of names)  *)
(* to nodes; a path string is looked up component by component, as the     *)
(* kernel does.  Symbolic links are not modelled.                          *)
(***************************************************************************)
EXTENDS Naturals, Sequences, FiniteSets, TLC

VARIABLES
    fs,         \* the file system: absolute path |-> node
    pc,         \* "listen" | "send_200" | "finish": where the server loop is
    client,     \* what the connected client wrote: [tokens, headers]
    data,       \* self.data, the bytes recv() returned
    req_method, \* handle's local req_method, NoValue until line 42 has run
    req_path,   \* handle's local req_path, NoValue until line 42 has run
    sent,       \* the messages given to self.request.send on this connection
    raised,     \* the exception that ended handle(), or "none"
    fsChk,      \* the file system as is_valid_path saw it
    serving,    \* serve_forever() is still running
    prevRaced,  \* the previous connection lost its file between check and read
    fsOps       \* number of file system changes made by other processes

vars == <<fs, pc, client, data, req_method, req_path, sent, raised, fsChk,
          serving, prevRaced, fsOps>>

-----------------------------------------------------------------------------
(* Bounds of the model *)

\* File system changes by other processes during one run.
MaxFsOps == 1

-----------------------------------------------------------------------------
(* Characters, bytes and the str methods the code uses *)

CR == "\r"
LF == "\n"
CRLF == <<CR, LF>>
SP == " "
NoValue == <<"<unset>">>

\* Bytes above 0x7F that occur in the model's files.
HighBytes == {"xC3", "xA9", "xFF"}

\* 1, 2, ..., n
Indices(n) == [i \in 1..n |-> i]

\* bytes.decode('utf-8') succeeds: every high byte is part of the two-byte
\* sequence C3 A9; a lone lead or continuation byte, or FF, is invalid.
Utf8Valid(b) ==
    \A i \in 1..Len(b) :
        b[i] \in HighBytes =>
            \/ b[i] = "xC3" /\ i < Len(b) /\ b[i + 1] = "xA9"
            \/ b[i] = "xA9" /\ i > 1 /\ b[i - 1] = "xC3"

\* bytes.decode('utf-8') of valid input: one character per lead byte.
Utf8Decode(b) ==
    LET lead == SelectSeq(Indices(Len(b)), LAMBDA i : b[i] # "xA9")
    IN [k \in 1..Len(lead) |->
            IF b[lead[k]] = "xC3" THEN "U+00E9" ELSE b[lead[k]]]

\* bytearray(s, 'utf-8')
RECURSIVE Utf8Encode(_)
Utf8Encode(s) ==
    IF s = <<>> THEN <<>>
    ELSE IF Len(s) = 1
    THEN IF s[1] = "U+00E9" THEN <<"xC3", "xA9">> ELSE s
    ELSE LET h == Len(s) \div 2
         IN Utf8Encode(SubSeq(s, 1, h)) \o Utf8Encode(SubSeq(s, h + 1, Len(s)))

\* Universal newlines of a file opened in text mode: "\r\n" and a lone "\r"
\* are read as "\n".
TranslateNewlines(s) ==
    LET kept == SelectSeq(Indices(Len(s)),
                          LAMBDA i : ~(s[i] = LF /\ i > 1 /\ s[i - 1] = CR))
    IN [k \in 1..Len(kept) |-> IF s[kept[k]] = CR THEN LF ELSE s[kept[k]]]

StartsWith(s, p) == Len(s) >= Len(p) /\ SubSeq(s, 1, Len(p)) = p

Last(s) == s[Len(s)]

\* c in s
Contains(s, c) == \E i \in 1..Len(s) : s[i] = c

\* str.split(sep) for a separator that cannot overlap itself (one
\* character, or two different ones): the pieces between its occurrences.
Split(s, sep) ==
    LET k == Len(sep)
        at == SelectSeq(Indices(Len(s)),
                        LAMBDA i : i + k - 1 <= Len(s) /\ SubSeq(s, i, i + k - 1) = sep)
        n == Len(at)
    IN [j \in 1..(n + 1) |->
            SubSeq(s, IF j = 1 THEN 1 ELSE at[j - 1] + k,
                      IF j = n + 1 THEN Len(s) ELSE at[j] - 1)]

\* sep.join(parts)
RECURSIVE Join(_, _)
Join(parts, sep) ==
    IF parts = <<>> THEN <<>>
    ELSE IF Len(parts) = 1 THEN parts[1]
    ELSE parts[1] \o sep \o Join(Tail(parts), sep)

\* The whitespace str.strip() removes, within the model's alphabet.
Whitespace == {" ", "\t", "\n", "\r"}

RECURSIVE LStrip(_)
LStrip(s) ==
    IF s # <<>> /\ Head(s) \in Whitespace THEN LStrip(Tail(s)) ELSE s

RECURSIVE RStrip(_)
RStrip(s) ==
    IF s # <<>> /\ Last(s) \in Whitespace
    THEN RStrip(SubSeq(s, 1, Len(s) - 1))
    ELSE s

\* str.strip()
Strip(s) == RStrip(LStrip(s))

Digit == <<"0", "1", "2", "3", "4", "5", "6", "7", "8", "9">>

\* str(n) of a non-negative int, as an f-string formats it.
RECURSIVE ToDec(_)
ToDec(n) ==
    IF n < 10 THEN <<Digit[n + 1]>>
    ELSE ToDec(n \div 10) \o <<Digit[(n % 10) + 1]>>

\* strftime's zero-padded two-digit fields (%d, %H, %M, %S).
Pad2(n) == IF n < 10 THEN <<"0">> \o ToDec(n) ELSE ToDec(n)

-----------------------------------------------------------------------------
(* os.path on a POSIX system *)

\* os.path.join(a, b)
os_path_join(a, b) ==
    IF StartsWith(b, <<"/">>) THEN b
    ELSE IF a = <<>> \/ Last(a) = "/" THEN a \o b
    ELSE a \o <<"/">> \o b

\* The loop of posixpath.normpath over the components.
RECURSIVE norm_comps(_, _, _)
norm_comps(comps, new_comps, initial_slashes) ==
    IF comps = <<>> THEN new_comps
    ELSE LET comp == Head(comps) IN
         IF comp = <<>> \/ comp = <<".">>
         THEN norm_comps(Tail(comps), new_comps, initial_slashes)
         ELSE IF \/ comp # <<".", ".">>
                 \/ (initial_slashes = 0 /\ new_comps = <<>>)
                 \/ (new_comps # <<>> /\ Last(new_comps) = <<".", ".">>)
         THEN norm_comps(Tail(comps), Append(new_comps, comp), initial_slashes)
         ELSE IF new_comps # <<>>
         THEN norm_comps(Tail(comps), SubSeq(new_comps, 1, Len(new_comps) - 1),
                         initial_slashes)
         ELSE norm_comps(Tail(comps), new_comps, initial_slashes)

\* os.path.normpath(path)
os_path_normpath(path) ==
    IF path = <<>> THEN <<".">>
    ELSE LET initial_slashes ==
                 IF ~StartsWith(path, <<"/">>) THEN 0
                 ELSE IF StartsWith(path, <<"/", "/">>)
                         /\ ~StartsWith(path, <<"/", "/", "/">>) THEN 2
                 ELSE 1
             comps == norm_comps(Split(path, <<"/">>), <<>>, initial_slashes)
             joined == [i \in 1..initial_slashes |-> "/"] \o Join(comps, <<"/">>)
         IN IF joined = <<>> THEN <<".">> ELSE joined

\* The components commonpath compares: empty ones and "." are dropped.
path_comps(path) ==
    SelectSeq(Split(path, <<"/">>), LAMBDA c : c # <<>> /\ c # <<".">>)

RECURSIVE common_prefix(_, _)
common_prefix(s1, s2) ==
    IF s1 = <<>> \/ s2 = <<>> \/ Head(s1) # Head(s2) THEN <<>>
    ELSE <<Head(s1)>> \o common_prefix(Tail(s1), Tail(s2))

\* os.path.commonpath([p, q]) of two absolute paths.
os_path_commonpath(p, q) ==
    <<"/">> \o Join(common_prefix(path_comps(p), path_comps(q)), <<"/">>)

-----------------------------------------------------------------------------
(* The file system *)

FileNode(bytes, readable) == [kind |-> "file", data |-> bytes, readable |-> readable]
DirNode == [kind |-> "dir", data |-> <<>>, readable |-> TRUE]

IsDir(fsys, p) == p = <<>> \/ (p \in DOMAIN fsys /\ fsys[p].kind = "dir")

Parent(p) == IF p = <<>> THEN <<>> ELSE SubSeq(p, 1, Len(p) - 1)

\* Path resolution: every component but the last must be a directory, ".."
\* is taken from the directory reached, a missing name ends the walk.
RECURSIVE walk(_, _, _)
walk(fsys, cur, comps) ==
    IF comps = <<>> THEN [found |-> TRUE, at |-> cur, errno |-> "none"]
    ELSE IF ~IsDir(fsys, cur) THEN [found |-> FALSE, at |-> cur, errno |-> "ENOTDIR"]
    ELSE LET c == Head(comps) IN
         IF c = <<>> \/ c = <<".">> THEN walk(fsys, cur, Tail(comps))
         ELSE IF c = <<".", ".">> THEN walk(fsys, Parent(cur), Tail(comps))
         ELSE IF Append(cur, c) \in DOMAIN fsys
         THEN walk(fsys, Append(cur, c), Tail(comps))
         ELSE [found |-> FALSE, at |-> cur, errno |-> "ENOENT"]

\* The node an absolute path string names, if any.
lookup(fsys, path) == walk(fsys, <<>>, Split(path, <<"/">>))

\* os.path.exists(path)
os_path_exists(fsys, path) == lookup(fsys, path).found

-----------------------------------------------------------------------------
(* server.py: constants and surroundings *)

\* str(HTTP_VER), the float 1.1 as an f-string formats it
HTTP_VER == <<"1", ".", "1">>

BUFFER_SIZE == 4096

GET == <<"G", "E", "T">>

VALID_REQUEST_METHODS == <<GET>>

\* os.path.abspath(os.path.dirname(__file__)): where server.py is installed.
ServerDir == <<"/", "s">>

\* self.server.server_address of the bound TCPServer
server_address == [addr |-> <<"1", "2", "7", ".", "0", ".", "0", ".", "1">>,
                   port |-> 8080]

\* self.request.recv(n): at most n bytes of what the client wrote.
recv(wire, n) == SubSeq(wire, 1, IF Len(wire) < n THEN Len(wire) ELSE n)

\* The readings datetime.datetime.utcnow() may return.
Clock ==
    { [wd |-> 7, d |-> 6, mon |-> 11, y |-> 1994, H |-> 8, M |-> 49, S |-> 37],
      [wd |-> 4, d |-> 29, mon |-> 10, y |-> 2026, H |-> 18, M |-> 8, S |-> 36] }

DayName == << <<"M", "o", "n">>, <<"T", "u", "e">>, <<"W", "e", "d">>,
              <<"T", "h", "u">>, <<"F", "r", "i">>, <<"S", "a", "t">>,
              <<"S", "u", "n">> >>

MonName == << <<"J", "a", "n">>, <<"F", "e", "b">>, <<"M", "a", "r">>,
              <<"A", "p", "r">>, <<"M", "a", "y">>, <<"J", "u", "n">>,
              <<"J", "u", "l">>, <<"A", "u", "g">>, <<"S", "e", "p">>,
              <<"O", "c", "t">>, <<"N", "o", "v">>, <<"D", "e", "c">> >>

-----------------------------------------------------------------------------
(* server.py: MyWebServer *)

RECURSIVE parse_header_lines(_, _)
\* The loop "for line in lines[1:]": a line that does not split into exactly
\* two parts fails the unpacking "header, value = ..." with ValueError.
parse_header_lines(lines, request_dict) ==
    IF lines = <<>> THEN [raised |-> "none", dict |-> request_dict]
    ELSE LET parts == Split(Head(lines), <<":", " ">>) IN
         IF Len(parts) # 2
         THEN [raised |-> "ValueError", dict |-> request_dict]
         ELSE parse_header_lines(Tail(lines),
                                 (parts[1] :> parts[2]) @@ request_dict)

Request == <<"R", "e", "q", "u", "e", "s", "t">>

parse_http_request(request) ==
    LET lines == Split(Strip(request), CRLF) IN
    parse_header_lines(Tail(lines), (Request :> lines[1]))

status_phrase_dict(status) ==
    CASE status = 200 -> <<"O", "K">>
      [] status = 301 -> <<"M", "o", "v", "e", "d", " ", "P", "e", "r", "m",
                           "a", "n", "e", "n", "t", "l", "y">>
      [] status = 404 -> <<"N", "o", "t", " ", "F", "o", "u", "n", "d">>
      [] status = 405 -> <<"M", "e", "t", "h", "o", "d", " ", "N", "o", "t",
                           " ", "A", "l", "l", "o", "w", "e", "d">>

\* A serialization that ends the header section with one CRLF only, leaving
\* out the blank line between the headers and the body.
http_response_no_blank_line(status, headers, res_entity_body) ==
    LET status_line == <<"H", "T", "T", "P", "/">> \o HTTP_VER \o <<SP>>
                       \o ToDec(status) \o <<SP>> \o status_phrase_dict(status)
        response == <<status_line>> \o headers
    IN Join(response, CRLF) \o CRLF \o res_entity_body

http_response(status, headers, res_entity_body) ==
    LET status_line == <<"H", "T", "T", "P", "/">> \o HTTP_VER \o <<SP>>
                       \o ToDec(status) \o <<SP>> \o status_phrase_dict(status)
        response == <<status_line>> \o headers \o <<CRLF>>
    IN Join(response, CRLF) \o res_entity_body

get_abs_root_dir == os_path_join(ServerDir, <<"w", "w", "w">>)

get_abs_path_of(path) ==
    LET p == IF Last(path) = "/"
             THEN path \o <<"i", "n", "d", "e", "x", ".", "h", "t", "m", "l">>
             ELSE path
    IN os_path_join(get_abs_root_dir, Tail(p))

\* A validity check that looks at existence only, not at containment.
is_valid_path_no_containment(fsys, path) ==
    os_path_exists(fsys, get_abs_path_of(path))

is_valid_path(fsys, path) ==
    LET abs_path == get_abs_path_of(path)
        norm_path == os_path_normpath(abs_path)
        abs_root_dir == get_abs_root_dir
    IN /\ os_path_commonpath(norm_path, abs_root_dir) = abs_root_dir
       /\ os_path_exists(fsys, abs_path)

\* now.strftime("%a, %d %b %Y %H:%M:%S GMT")
get_current_rfc_date_str(now) ==
    DayName[now.wd] \o <<",", " ">> \o Pad2(now.d) \o <<SP>>
    \o MonName[now.mon] \o <<SP>> \o ToDec(now.y) \o <<SP>>
    \o Pad2(now.H) \o <<":">> \o Pad2(now.M) \o <<":">> \o Pad2(now.S)
    \o <<" ", "G", "M", "T">>

is_valid_req_method(method) ==
    \E i \in 1..Len(VALID_REQUEST_METHODS) : VALID_REQUEST_METHODS[i] = method

is_valid_req_dirpath(path) ==
    IF Last(path) = "/" THEN TRUE
    ELSE Contains(Last(Split(path, <<"/">>)), ".")

DateHeader(now) == <<"D", "a", "t", "e", ":", " ">> \o get_current_rfc_date_str(now)

ConnectionClose == <<"C", "o", "n", "n", "e", "c", "t", "i", "o", "n", ":",
                     " ", "c", "l", "o", "s", "e">>

\* open(abs_req_path, 'r') and f.read(): the text read, or the exception.
open_and_read(fsys, abs_req_path) ==
    LET r == lookup(fsys, abs_req_path) IN
    IF ~r.found
    THEN [raised |-> IF r.errno = "ENOTDIR" THEN "NotADirectoryError"
                     ELSE "FileNotFoundError",
          text |-> <<>>]
    ELSE IF IsDir(fsys, r.at) THEN [raised |-> "IsADirectoryError", text |-> <<>>]
    ELSE IF ~fsys[r.at].readable THEN [raised |-> "PermissionError", text |-> <<>>]
    ELSE IF ~Utf8Valid(fsys[r.at].data)
    THEN [raised |-> "UnicodeDecodeError", text |-> <<>>]
    ELSE [raised |-> "none",
          text |-> TranslateNewlines(Utf8Decode(fsys[r.at].data))]

\* A send_200 that sends the status line before it opens the file.
send_200_status_first(fsys, path, now) ==
    LET f == open_and_read(fsys, get_abs_path_of(path))
        early == Utf8Encode(http_response(200, <<>>, <<>>))
    IN IF f.raised # "none" THEN [sent |-> <<early>>, raised |-> f.raised]
       ELSE [sent |-> <<early, Utf8Encode(f.text)>>, raised |-> "none"]

\* The messages send_200 gives to self.request.send, and how it ends.
send_200(fsys, path, now) ==
    LET abs_req_path == get_abs_path_of(path)
        f == open_and_read(fsys, abs_req_path)
        ext == Last(Split(abs_req_path, <<".">>))
        res_entity_body == f.text
        content_len == Len(res_entity_body)
        header_lines ==
            << <<"C", "o", "n", "t", "e", "n", "t", "-", "L", "e", "n", "g",
                 "t", "h", ":", " ">> \o ToDec(content_len),
               <<"C", "o", "n", "t", "e", "n", "t", "-", "T", "y", "p", "e",
                 ":", " ", "t", "e", "x", "t", "/">> \o ext,
               DateHeader(now),
               ConnectionClose >>
        res_msg == http_response(200, header_lines, res_entity_body)
    IN IF f.raised # "none" THEN [sent |-> <<>>, raised |-> f.raised]
       ELSE [sent |-> <<Utf8Encode(res_msg)>>, raised |-> "none"]

send_301(path, now) ==
    LET forward_url == <<"h", "t", "t", "p", ":", "/", "/">>
                       \o server_address.addr \o <<":">>
                       \o ToDec(server_address.port) \o path \o <<"/">>
        header_lines ==
            << <<"L", "o", "c", "a", "t", "i", "o", "n", ":", " ">> \o forward_url,
               DateHeader(now),
               ConnectionClose >>
    IN Utf8Encode(http_response(301, header_lines, <<>>))

send_404(now) ==
    Utf8Encode(http_response(404, <<DateHeader(now), ConnectionClose>>, <<>>))

send_405(now) ==
    LET header_lines ==
            << DateHeader(now),
               <<"A", "l", "l", "o", "w", ":", " ">>
                   \o Join(VALID_REQUEST_METHODS, <<",", " ">>) >>
    IN Utf8Encode(http_response(405, header_lines, <<>>))

\* handle() up to the call of send_200: what it sends, how it ends, and
\* whether send_200 is entered next.
handle(d, fsys, now) ==
    LET Ends(exc) == [next |-> "finish", sent |-> <<>>, raised |-> exc,
                      req_method |-> NoValue, req_path |-> NoValue]
    IN
    IF ~Utf8Valid(d) THEN Ends("UnicodeDecodeError")
    ELSE LET parsed == parse_http_request(Utf8Decode(d)) IN
    IF parsed.raised # "none" THEN Ends(parsed.raised)
    ELSE LET tokens == Split(parsed.dict[Request], <<SP>>) IN
    IF Len(tokens) # 3 THEN Ends("ValueError")
    ELSE LET method == tokens[1]
             path == tokens[2]
             Out(nxt, msgs, exc) ==
                 [next |-> nxt, sent |-> msgs, raised |-> exc,
                  req_method |-> method, req_path |-> path]
    IN
    IF ~is_valid_req_method(method) THEN Out("finish", <<send_405(now)>>, "none")
    ELSE IF path = <<>> THEN Out("finish", <<>>, "IndexError")
    ELSE IF ~is_valid_req_dirpath(path)
    THEN Out("finish", <<send_301(path, now)>>, "none")
    ELSE IF ~is_valid_path(fsys, path)
    THEN Out("finish", <<send_404(now)>>, "none")
    ELSE Out("send_200", <<>>, "none")

\* socketserver's process_request: an exception of class Exception raised by
\* the handler is reported by handle_error and the loop goes on.
ExceptionClasses ==
    {"ValueError", "IndexError", "UnicodeDecodeError", "FileNotFoundError",
     "NotADirectoryError", "IsADirectoryError", "PermissionError"}

\* What open() raises for a path that is gone, or not readable.
OpenErrors == {"FileNotFoundError", "NotADirectoryError", "PermissionError"}

serve_forever_survives(exc) == exc = "none" \/ exc \in ExceptionClasses

-----------------------------------------------------------------------------
(* The surroundings: the files on disk and the clients *)

WWW == << <<"s">>, <<"w", "w", "w">> >>
IndexHtml == <<"i", "n", "d", "e", "x", ".", "h", "t", "m", "l">>

\* The tree the server starts on:
\*   /s/x.t  /s/www/index.html  /s/www/a.t  /s/www/d/  /s/www/e.d/
InitFs ==
    ( << <<"s">> >> :> DirNode )
    @@ ( << <<"s">>, <<"x", ".", "t">> >> :> FileNode(<<"k">>, TRUE) )
    @@ ( WWW :> DirNode )
    @@ ( Append(WWW, IndexHtml) :> FileNode(<<"h", "i">>, TRUE) )
    @@ ( Append(WWW, <<"a", ".", "t">>) :> FileNode(<<"h", "xC3", "xA9">>, TRUE) )
    @@ ( Append(WWW, <<"d">>) :> DirNode )
    @@ ( Append(WWW, <<"e", ".", "d">>) :> DirNode )

\* The paths other processes create, change and remove while the server runs.
MutablePaths ==
    { Append(WWW, IndexHtml),
      Append(WWW, <<"a", ".", "t">>),
      Append(WWW, <<"d">>) \o <<IndexHtml>>,
      Append(WWW, <<"e", ".", "d">>),
      << <<"s">>, <<"x", ".", "t">> >> }

\* The contents they write: ASCII, a two-byte character, CRLF line ends, and
\* a byte that is not UTF-8.
Contents ==
    { <<"h", "i">>, <<"h", "xC3", "xA9">>, <<"a", CR, LF, "b">>, <<"xFF">> }

Methods == { GET, <<"P", "O", "S", "T">> }

Targets ==
    { <<"/">>,
      <<"/", "i", "n", "d", "e", "x", ".", "h", "t", "m", "l">>,
      <<"/", "a", ".", "t">>,
      <<"/", "n", ".", "t">>,
      <<"/", "d">>,
      <<"/", "d", "/">>,
      <<"/", "n">>,
      <<"/", "e", ".", "d">>,
      <<"/", ".">>,
      <<"/", ".", ".">>,
      <<"/", ".", ".", "/">>,
      <<"/", ".", ".", "/", "x", ".", "t">>,
      <<"/", ".", ".", "/", "x">>,
      <<"/", ".", ".", "/", "w", "w", "w", "/", "a", ".", "t">>,
      <<"/", "n", "/", ".", ".", "/", "a", ".", "t">>,
      <<"/", "d", "/", ".", ".", "/", "a", ".", "t">>,
      <<"/", "/", "s", "/", "x", ".", "t">>,
      <<"/", "a", ".", "t", "/">>,
      <<"a", ".", "t">>,
      <<"/", "xFF">>,
      <<>> }

HTTP11 == <<"H", "T", "T", "P", "/", "1", ".", "1">>

\* The header sections clients send: none, one header, a header whose value
\* holds ": " again, a header named Request, and a line without ": ".
HeaderSections ==
    { <<>>,
      << <<"H", "o", "s", "t", ":", " ", "h">> >>,
      << <<"X", ":", " ", "a", ":", " ", "b">> >>,
      << <<"R", "e", "q", "u", "e", "s", "t", ":", " ", "G", "E", "T", " ",
           "/", "a", ".", "t", " ", "H", "T", "T", "P", "/", "1", ".", "1">> >>,
      << <<"B", "a", "d">> >> }

\* Request lines of three tokens, and of two and of four.
RequestLines ==
    { <<m, t, HTTP11>> : m \in Methods, t \in Targets }
    \cup { <<GET, <<"/">> >>, <<GET, <<"/">>, <<"x">>, HTTP11>> }

\* The request lines sent with each of the header sections.
ProbeLines ==
    { <<m, t, HTTP11>> : m \in Methods,
                         t \in { <<"/">>, <<"/", "d">>, <<"/", ".", ".", "/", "x", ".", "t">> } }

Clients ==
    [tokens : RequestLines, headers : {<<>>}]
    \cup [tokens : ProbeLines, headers : HeaderSections]

\* The bytes a client writes: request line, header lines, blank line.
Wire(c) ==
    Join(<<Join(c.tokens, <<SP>>)>> \o c.headers, CRLF) \o CRLF \o CRLF

NoClient == [tokens |-> <<>>, headers |-> <<>>]

\* fsChk while no request has been checked.
NoFs == <<>>

-----------------------------------------------------------------------------
(* The server loop and the other processes *)

Init ==
    /\ fs = InitFs
    /\ pc = "listen"
    /\ client = NoClient
    /\ data = <<>>
    /\ req_method = NoValue
    /\ req_path = NoValue
    /\ sent = <<>>
    /\ raised = "none"
    /\ fsChk = NoFs
    /\ serving = TRUE
    /\ prevRaced = FALSE
    /\ fsOps = 0

\* A connection is accepted and handle() runs, to its end or to the call of
\* send_200.
Handle(c, now) ==
    /\ pc = "listen"
    /\ serving
    /\ \E d \in {recv(Wire(c), BUFFER_SIZE)} :
       \E r \in {handle(d, fs, now)} :
          /\ client' = c
          /\ data' = d
          /\ req_method' = r.req_method
          /\ req_path' = r.req_path
          /\ sent' = r.sent
          /\ raised' = r.raised
          /\ pc' = r.next
    /\ fsChk' = fs
    /\ UNCHANGED <<fs, serving, prevRaced, fsOps>>

\* send_200 opens and reads the file and sends the response.
Send200(now) ==
    /\ pc = "send_200"
    /\ \E r \in {send_200(fs, req_path, now)} :
          /\ sent' = sent \o r.sent
          /\ raised' = r.raised
    /\ pc' = "finish"
    /\ UNCHANGED <<fs, client, data, req_method, req_path, fsChk, serving,
                   prevRaced, fsOps>>

\* The connection is shut down and the loop takes the next one, unless the
\* handler's exception ended the process.
ShutdownRequest ==
    /\ pc = "finish"
    /\ pc' = "listen"
    /\ serving' = serve_forever_survives(raised)
    /\ prevRaced' = (fs # fsChk /\ raised \in OpenErrors)
    /\ client' = NoClient
    /\ data' = <<>>
    /\ req_method' = NoValue
    /\ req_path' = NoValue
    /\ sent' = <<>>
    /\ raised' = "none"
    /\ fsChk' = NoFs
    /\ UNCHANGED <<fs, fsOps>>

\* Another process changes the document tree, between connections or
\* between is_valid_path and send_200's open.
FsStep ==
    /\ pc \in {"listen", "send_200"}
    /\ fsOps < MaxFsOps
    /\ fsOps' = fsOps + 1
    /\ UNCHANGED <<pc, client, data, req_method, req_path, sent, raised,
                   fsChk, serving, prevRaced>>

IsFile(fsys, p) == p \in DOMAIN fsys /\ fsys[p].kind = "file"

Remove(fsys, p) == [q \in DOMAIN fsys \ {p} |-> fsys[q]]

FsUnlink(p) ==
    /\ FsStep
    /\ IsFile(fs, p)
    /\ fs' = Remove(fs, p)

FsWrite(p, bytes) ==
    /\ FsStep
    /\ IsDir(fs, Parent(p))
    /\ ~IsDir(fs, p)
    /\ fs' = (p :> FileNode(bytes, IF p \in DOMAIN fs THEN fs[p].readable ELSE TRUE))
             @@ fs

FsChmod(p) ==
    /\ FsStep
    /\ IsFile(fs, p)
    /\ fs' = (p :> FileNode(fs[p].data, ~fs[p].readable)) @@ fs

FsMkdir(p) ==
    /\ FsStep
    /\ IsDir(fs, Parent(p))
    /\ p \notin DOMAIN fs
    /\ fs' = (p :> DirNode) @@ fs

FsRmdir(p) ==
    /\ FsStep
    /\ IsDir(fs, p)
    /\ \A q \in DOMAIN fs : Parent(q) # p
    /\ fs' = Remove(fs, p)

Next ==
    \/ \E c \in Clients, now \in Clock : Handle(c, now)
    \/ \E now \in Clock : Send200(now)
    \/ ShutdownRequest
    \/ \E p \in MutablePaths : FsUnlink(p)
    \/ \E p \in MutablePaths, bytes \in Contents : FsWrite(p, bytes)
    \/ \E p \in MutablePaths : FsChmod(p)
    \/ \E p \in MutablePaths : FsMkdir(p)
    \/ \E p \in MutablePaths : FsRmdir(p)

Spec == Init /\ [][Next]_vars

-----------------------------------------------------------------------------
(* Reading a request as the client wrote it, and a response off the wire *)

Finished == pc = "finish"

\* The request is the plainest one: three tokens, a target, no header lines.
PlainClient ==
    /\ Len(client.tokens) = 3
    /\ client.tokens[2] # <<>>
    /\ client.headers = <<>>
    /\ Utf8Valid(Wire(client))

\* The request is well formed as section 4.1 of the specification has it:
\* three tokens, a target, and ": " in every header line.
WellFormedClient ==
    /\ Len(client.tokens) = 3
    /\ client.tokens[2] # <<>>
    /\ \A i \in 1..Len(client.headers) :
           \E k \in 1..(Len(client.headers[i]) - 1) :
               client.headers[i][k] = ":" /\ client.headers[i][k + 1] = " "
    /\ Utf8Valid(Wire(client))

Method == client.tokens[1]
Target == client.tokens[2]

FinalSegment(t) == Last(Split(t, <<"/">>))

\* The target is redirected: no trailing slash, no "." in the final segment.
RedirectEligible(t) == Last(t) # "/" /\ ~Contains(FinalSegment(t), ".")

\* The names of the normalized path the target resolves to.
NormComps(t) == path_comps(os_path_normpath(get_abs_path_of(t)))

InsideRoot(t) ==
    /\ Len(NormComps(t)) >= Len(WWW)
    /\ SubSeq(NormComps(t), 1, Len(WWW)) = WWW

\* Where the blank line of a message starts, 0 if there is none.
BlankAt(msg) ==
    LET hits == SelectSeq(Indices(Len(msg)),
                          LAMBDA i : /\ i + 3 <= Len(msg)
                                     /\ SubSeq(msg, i, i + 3) = CRLF \o CRLF)
    IN IF hits = <<>> THEN 0 ELSE hits[1]

HeadLines(msg) == Split(SubSeq(msg, 1, BlankAt(msg) - 1), CRLF)

BodyOf(msg) == SubSeq(msg, BlankAt(msg) + 4, Len(msg))

Line200 == <<"H", "T", "T", "P", "/", "1", ".", "1", " ", "2", "0", "0", " ", "O", "K">>
Line301 == <<"H", "T", "T", "P", "/", "1", ".", "1", " ", "3", "0", "1", " ",
             "M", "o", "v", "e", "d", " ", "P", "e", "r", "m", "a", "n", "e",
             "n", "t", "l", "y">>
Line404 == <<"H", "T", "T", "P", "/", "1", ".", "1", " ", "4", "0", "4", " ",
             "N", "o", "t", " ", "F", "o", "u", "n", "d">>
Line405 == <<"H", "T", "T", "P", "/", "1", ".", "1", " ", "4", "0", "5", " ",
             "M", "e", "t", "h", "o", "d", " ", "N", "o", "t", " ", "A", "l",
             "l", "o", "w", "e", "d">>

AllowGet == <<"A", "l", "l", "o", "w", ":", " ", "G", "E", "T">>
ContentLengthKey == <<"C", "o", "n", "t", "e", "n", "t", "-", "L", "e", "n",
                      "g", "t", "h", ":", " ">>
ContentTypeKey == <<"C", "o", "n", "t", "e", "n", "t", "-", "T", "y", "p",
                    "e", ":", " ", "t", "e", "x", "t", "/">>
LocationKey == <<"L", "o", "c", "a", "t", "i", "o", "n", ":", " ">>
DateKey == <<"D", "a", "t", "e", ":", " ">>
CloseLine == <<"C", "o", "n", "n", "e", "c", "t", "i", "o", "n", ":", " ",
               "c", "l", "o", "s", "e">>

\* The HTTP-dates of the clock's readings.
HttpDates ==
    { <<"S", "u", "n", ",", " ", "0", "6", " ", "N", "o", "v", " ", "1", "9",
        "9", "4", " ", "0", "8", ":", "4", "9", ":", "3", "7", " ", "G", "M", "T">>,
      <<"T", "h", "u", ",", " ", "2", "9", " ", "O", "c", "t", " ", "2", "0",
        "2", "6", " ", "1", "8", ":", "0", "8", ":", "3", "6", " ", "G", "M", "T">> }

IsDateLine(line) == \E d \in HttpDates : line = DateKey \o d

\* The message starts with this status line.
HasStatus(msg, line) == BlankAt(msg) > 0 /\ HeadLines(msg)[1] = line

\* Exactly one message was sent, and it starts with this status line.
Answered(line) == raised = "none" /\ Len(sent) = 1 /\ HasStatus(sent[1], line)

\* The file the target names, when its lookup ends at a readable regular
\* file that holds UTF-8 text; otherwise no file.
NoFile == [kind |-> "none"]
ServableFile(fsys, t) ==
    LET r == lookup(fsys, get_abs_path_of(t)) IN
    IF r.found /\ IsFile(fsys, r.at) /\ fsys[r.at].readable
       /\ Utf8Valid(fsys[r.at].data) /\ r.at = NormComps(t)
    THEN fsys[r.at] ELSE NoFile

-----------------------------------------------------------------------------
(* C1 *)

\* C1 as stated: a well-formed request whose method is not GET is answered
\* with one 405 response that carries "Allow: GET", whatever its target.
C1_NonGetIs405 ==
    (Finished /\ WellFormedClient /\ Method # GET) =>
        /\ Answered(Line405)
        /\ \E i \in DOMAIN HeadLines(sent[1]) : HeadLines(sent[1])[i] = AllowGet

-----------------------------------------------------------------------------
(* C2 *)

\* C2 as stated: a GET request whose target normalizes outside the document
\* root is answered 404.
C2_EscapeIs404 ==
    (Finished /\ PlainClient /\ Method = GET /\ ~InsideRoot(Target)) =>
        Answered(Line404)

\* C2 amended: for a GET request line that handle() unpacks with a target
\* that normalizes outside the document root, the answer is 301 when the
\* target is redirected (no trailing slash, no "." in the final segment) and
\* 404 otherwise; it is never 200 and send_200 is never entered.
C2_EscapeIs404Or301 ==
    (req_method = GET /\ req_path # <<>> /\ ~InsideRoot(req_path)) =>
        /\ pc = "finish"
        /\ IF RedirectEligible(req_path) THEN Answered(Line301)
           ELSE Answered(Line404)

\* A file exists at the escaped location /s/x.t and the answer is 404.
C2_Witness ==
    /\ Finished
    /\ req_method = GET
    /\ req_path = <<"/", ".", ".", "/", "x", ".", "t">>
    /\ IsFile(fs, << <<"s">>, <<"x", ".", "t">> >>)
    /\ Answered(Line404)

-----------------------------------------------------------------------------
(* C3 *)

\* C3 as stated: a well-formed GET request whose target has no trailing
\* slash and no "." in its final segment is answered 301 with
\* "Location: http://<host>:<port><target>/" and no body.
C3_ExtensionlessIs301 ==
    (Finished /\ WellFormedClient /\ Method = GET /\ RedirectEligible(Target)) =>
        /\ Answered(Line301)
        /\ HeadLines(sent[1])[2] =
               LocationKey
               \o <<"h", "t", "t", "p", ":", "/", "/", "1", "2", "7", ".", "0",
                    ".", "0", ".", "1", ":", "8", "0", "8", "0">>
               \o Target \o <<"/">>
        /\ BodyOf(sent[1]) = <<>>

-----------------------------------------------------------------------------
(* C4 *)

\* C4 as stated: a GET request for an existing file with an extension is
\* answered 200 with Content-Length the number of bytes of the file, the
\* file's bytes as body and Content-Type text/<extension>.
C4_LengthIsByteCount ==
    (/\ Finished /\ PlainClient /\ Method = GET /\ fs = fsChk
     /\ Last(Target) # "/"
     /\ Contains(FinalSegment(Target), ".")
     /\ InsideRoot(Target)
     /\ ServableFile(fs, Target) # NoFile) =>
        /\ Answered(Line200)
        /\ HeadLines(sent[1])[2] =
               ContentLengthKey \o ToDec(Len(ServableFile(fs, Target).data))
        /\ HeadLines(sent[1])[3] =
               ContentTypeKey \o Last(Split(FinalSegment(Target), <<".">>))
        /\ BodyOf(sent[1]) = ServableFile(fs, Target).data

-----------------------------------------------------------------------------
(* C5 *)

\* C5 as stated: a GET request whose target ends in "/" is never answered
\* 301; it is answered 200 with the contents of <target>index.html when that
\* file exists inside the document root, and 404 when it does not exist.
C5_SlashServesIndex ==
    (Finished /\ PlainClient /\ Method = GET /\ Last(Target) = "/" /\ fs = fsChk) =>
        /\ \A i \in 1..Len(sent) : ~HasStatus(sent[i], Line301)
        /\ (InsideRoot(Target) /\ ServableFile(fs, Target) # NoFile) =>
               /\ Answered(Line200)
               /\ BodyOf(sent[1]) = ServableFile(fs, Target).data
        /\ ~os_path_exists(fs, get_abs_path_of(Target)) => Answered(Line404)

-----------------------------------------------------------------------------
(* C6 *)

\* A Content-Length line that holds a decimal number.
IsContentLength(line) ==
    /\ StartsWith(line, ContentLengthKey)
    /\ \A k \in (Len(ContentLengthKey) + 1)..Len(line) :
           \E j \in DOMAIN Digit : Digit[j] = line[k]
    /\ Len(line) > Len(ContentLengthKey)

\* The header lines of a response with this status line, in order.
VariantHeaders(lines) ==
    \/ /\ lines[1] = Line200
       /\ Len(lines) = 5
       /\ IsContentLength(lines[2])
       /\ StartsWith(lines[3], ContentTypeKey)
       /\ IsDateLine(lines[4])
       /\ lines[5] = CloseLine
    \/ /\ lines[1] = Line301
       /\ Len(lines) = 4
       /\ StartsWith(lines[2], LocationKey)
       /\ IsDateLine(lines[3])
       /\ lines[4] = CloseLine
    \/ /\ lines[1] = Line404
       /\ Len(lines) = 3
       /\ IsDateLine(lines[2])
       /\ lines[3] = CloseLine
    \/ /\ lines[1] = Line405
       /\ Len(lines) = 3
       /\ IsDateLine(lines[2])
       /\ lines[3] = AllowGet

\* C6: every response sent is the status line with the fixed reason phrase,
\* the header lines of its variant in order, each line ended by one CRLF,
\* one blank line, and the body, which is empty for 301, 404 and 405.
C6_ResponseFormat ==
    \A i \in 1..Len(sent) :
        \A lines \in {HeadLines(sent[i])} :
        \A body \in {BodyOf(sent[i])} :
            /\ BlankAt(sent[i]) > 0
            /\ VariantHeaders(lines)
            /\ IF lines[1] = Line200
               THEN body = Utf8Encode(
                               open_and_read(fs, get_abs_path_of(req_path)).text)
               ELSE body = <<>>
            /\ sent[i] = Join(lines, CRLF) \o CRLF \o CRLF \o body

\* A 200 response with a body has been sent.
C6_Witness ==
    /\ Finished
    /\ Answered(Line200)
    /\ BodyOf(sent[1]) # <<>>

-----------------------------------------------------------------------------
(* C7 *)

\* C7 as stated: a request of three tokens whose header lines all hold ": "
\* does not fail in the parser, also when a value holds ": " again.
C7_SplitsOnFirstSeparator ==
    (Finished /\ WellFormedClient) => raised # "ValueError"

-----------------------------------------------------------------------------
(* C8 *)

\* C8 as stated: a GET request that is not redirected is answered 200 when
\* the normalized path lies inside the root and is a regular file there, and
\* 404 otherwise, a directory included.
C8_ExistenceOnNormalizedPath ==
    (/\ Finished /\ PlainClient /\ Method = GET /\ fs = fsChk
     /\ ~RedirectEligible(Target)) =>
        IF InsideRoot(Target) /\ IsFile(fs, NormComps(Target))
        THEN (fs[NormComps(Target)].readable /\ Utf8Valid(fs[NormComps(Target)].data))
                 => Answered(Line200)
        ELSE Answered(Line404)

-----------------------------------------------------------------------------
(* C9 *)

\* C9: when open() fails in send_200 because the file went away or became
\* unreadable after is_valid_path, nothing has been sent on the connection,
\* the server keeps serving, and after the connection is shut down the server
\* is listening with the state of a fresh connection, so that it handles the
\* next one as it handles any other.
C9_RaceEndsOnlyTheConnection ==
    /\ serving
    /\ (Finished /\ raised \in OpenErrors) => sent = <<>>
    /\ (pc = "listen" /\ prevRaced) =>
           /\ client = NoClient /\ data = <<>>
           /\ req_method = NoValue /\ req_path = NoValue
           /\ sent = <<>> /\ raised = "none"

\* After a connection that lost its file to a change of the tree, the next
\* one has been answered 200.
C9_Witness ==
    /\ prevRaced
    /\ Finished
    /\ Answered(Line200)

-----------------------------------------------------------------------------
(* C10 *)

\* C10 as stated: a request of three tokens and well-formed header lines
\* gets exactly one response, 405, 301, 404 or 200, chosen by the first check
\* that applies: method, directory redirect, containment and existence.
C10_ExactlyOneResponse ==
    (Finished /\ PlainClient /\ fs = fsChk) =>
        /\ Len(sent) = 1
        /\ IF Method # GET THEN Answered(Line405)
           ELSE IF RedirectEligible(Target) THEN Answered(Line301)
           ELSE Answered(Line404) \/ Answered(Line200)

=============================================================================
